---- MODULE Spec2Model ----
(***************************************************************************)
(* ConversationEngineBot (scripts/conversation_engine_bot.py): the bridge  *)
(* between a Telegram chat and the "conversation_engine" action server.    *)
(*                                                                         *)
(* Three threads run the code of the class:                                *)
(*   - the Telegram dispatcher thread runs _start, _stop, _help and        *)
(*     _accept_command, one update at a time;                              *)
(*   - the action client's callback thread runs _done_callback and         *)
(*     _feedback_callback;                                                 *)
(*   - the HMI server's execute thread runs _determine_answer.             *)
(* A handler that neither blocks nor reads a field before writing another  *)
(* is one action.  _accept_command (reads _answer_needed, later writes     *)
(* _answer) and _determine_answer (sets the flag, sends, polls, reads,     *)
(* clears) are split at their accesses to the shared fields.               *)
(*                                                                         *)
(* Texts are sequences of one-character strings.  A field that may hold    *)
(* Python's None is <<>> (None) or <<v>> (the value v).                    *)
(***************************************************************************)
EXTENDS Naturals, Sequences, FiniteSets, TLC

VARIABLES
    bot,            \* self._bot
    chat_id,        \* self._chat_id
    answer,         \* self._answer
    answer_needed,  \* self._answer_needed
    ac,             \* self.ac: the goal the action client tracks
    disp,           \* dispatcher thread: the handler it runs or ran last
    cb,             \* callback thread: the callback it ran last
    hmi,            \* HMI execute thread: the _determine_answer call
    txt,            \* sanitize_text alone: its argument
    lowered,        \* sanitize_text alone: its value on txt
    again           \* sanitize_text alone: its value on that value

bridge == <<bot, chat_id, answer, answer_needed, ac, disp, cb, hmi>>
pure == <<txt, lowered, again>>
vars == <<bot, chat_id, answer, answer_needed, ac, disp, cb, hmi,
          txt, lowered, again>>

None == <<>>
Some(v) == <<v>>

(***************************************************************************)
(* Bounds and the inputs drawn from them.                                  *)
(***************************************************************************)
MaxLen == 2

UpperCase == <<"A", "B", "C", "D", "E", "F", "G", "H", "I", "J", "K", "L", "M",
               "N", "O", "P", "Q", "R", "S", "T", "U", "V", "W", "X", "Y", "Z">>
LowerCase == <<"a", "b", "c", "d", "e", "f", "g", "h", "i", "j", "k", "l", "m",
               "n", "o", "p", "q", "r", "s", "t", "u", "v", "w", "x", "y", "z">>

\* The character U+0060 (grave accent), which a TLA+ string cannot hold.
Grave == "grave"

\* The literal of line 67, character by character (duplicates included).
ExclusionString == <<"!", ".", ",", ":", "'", "?", Grave, "~", "@", "#", "$", "%",
                     "^", "&", "*", "(", ")", "_", "+", "=", "-", ">", "<", "/",
                     "*", "-", "+">>

\* The token of line 97.
AnswerPrefix == <<"/", "a", "n", "s", "w", "e", "r", " ">>

Range(s) == {s[i] : i \in 1..Len(s)}

\* Characters the argument of sanitize_text is drawn from: every character of
\* the literal, letters of both cases, and characters that are kept as they are.
Alphabet == Range(ExclusionString) \cup {"a", "b", "A", "B", " ", "7", ";"}
Inputs == UNION {[1..n -> Alphabet] : n \in 0..MaxLen}

Chats == {1, 2}
GoText == <<"G", "o", "!">>
AnswerText == AnswerPrefix \o <<"B", "e", "d", ".">>
MidText == <<"a", "t", " ">> \o AnswerPrefix \o <<"B">>
Texts == {GoText, AnswerText, MidText}
Question == <<"W", "h", "e", "r", "e", "?">>
Descriptions == {<<>>, Question}
Grammars == {"grammar"}
Targets == {"T"}
ResultSentences == {<<"D", "o", "n", "e", "!">>}
Feedbacks == {<<"step 1">>, <<"step 2">>}

(***************************************************************************)
(* sanitize_text, str.replace and the external collaborators.              *)
(***************************************************************************)
InExclusion(c) == \E i \in 1..Len(ExclusionString) : ExclusionString[i] = c

RECURSIVE Stripped(_)
Stripped(s) ==
    IF s = <<>> THEN <<>>
    ELSE (IF InExclusion(Head(s)) THEN <<>> ELSE <<Head(s)>>) \o Stripped(Tail(s))

LowerChar(c) ==
    IF \E i \in 1..Len(UpperCase) : UpperCase[i] = c
    THEN LowerCase[CHOOSE i \in 1..Len(UpperCase) : UpperCase[i] = c]
    ELSE c

lower(s) == [i \in 1..Len(s) |-> LowerChar(s[i])]

\* Faulty variants of sanitize_text: one that removes only the first excluded
\* character, one that forgets to lowercase.
RECURSIVE StrippedFirst(_)
StrippedFirst(s) ==
    IF s = <<>> THEN <<>>
    ELSE IF InExclusion(Head(s)) THEN Tail(s)
    ELSE <<Head(s)>> \o StrippedFirst(Tail(s))

sanitize_text_first_only(s) == lower(StrippedFirst(s))

sanitize_text_not_lowered(s) == Stripped(s)

sanitize_text(s) == lower(Stripped(s))

StartsWith(s, p) == Len(s) >= Len(p) /\ SubSeq(s, 1, Len(p)) = p

\* s.replace(old, ""): every occurrence, left to right, not overlapping.
RECURSIVE replace(_, _)
replace(s, old) ==
    IF s = <<>> THEN <<>>
    ELSE IF StartsWith(s, old) THEN replace(SubSeq(s, Len(old) + 1, Len(s)), old)
    ELSE <<Head(s)>> \o replace(Tail(s), old)

\* hmi.common.parse_sentence: external, a function of its three arguments.
parse_sentence(s, grammar, target) == <<"semantics", s, grammar, target>>

HMIResult(sentence, semantics) == [sentence |-> sentence, semantics |-> semantics]

Msg(c, t) == [chat_id |-> c, text |-> t]

TheBot == "Bot"
HiText == <<"Hi! Your typed wish is my command">>
robot_name == "amigo"
Greeting == <<"I'm ", robot_name, ", please talk to me!">>
HelpText == <<"With what? Please type a command in \"natural\" language">>
BeginText == <<"Begin a conversation with /start">>
BusyText == <<"I'm busy...">>
ErrText(grammar, target) == <<"Cannot answer empty question.", grammar, target>>

\* self._bot.send_message(chat_id=self._chat_id, ...) succeeds when both are set.
CanSend == bot # None /\ chat_id # None

\* self.ac.cancel_all_goals(): a goal being executed is asked to stop; its
\* done callback is still to come.
cancel_all_goals(a) ==
    IF a.status = "active" THEN [a EXCEPT !.status = "cancelling"] ELSE a

\* self.ac.send_goal(goal, ...): the client tracks the new goal.
send_goal(command) == [status |-> "active", command |-> command]

(***************************************************************************)
(* Initial state: __init__.                                                *)
(***************************************************************************)
NoHandler ==
    [pc |-> "idle", op |-> "none", prev |-> "none", text |-> <<>>, chat |-> None,
     asked |-> FALSE,
     replies |-> <<>>, sends |-> <<>>, goals |-> <<>>, cancels |-> 0]

NoCallback ==
    [op |-> "none", sentence |-> <<>>, feedback |-> <<>>, sends |-> <<>>,
     raised |-> FALSE]

NoCall ==
    [pc |-> "idle", description |-> <<>>, grammar |-> "grammar", target |-> "T",
     read |-> None, stored |-> "before", sent |-> <<>>, outcome |-> "none",
     result |-> HMIResult(<<>>, <<>>)]

InitBridge ==
    /\ bot = None
    /\ chat_id = None
    /\ answer = None
    /\ answer_needed = FALSE
    /\ ac = [status |-> "none", command |-> <<>>]
    /\ disp = NoHandler
    /\ cb = NoCallback
    /\ hmi = NoCall

Init ==
    /\ InitBridge
    /\ txt = <<>>
    /\ lowered = None
    /\ again = None

(***************************************************************************)
(* Dispatcher thread.                                                      *)
(***************************************************************************)
\* prev: for a text message, the handler that ran before it.
\* asked: for a text message about to be stored as the answer, whether it
\* arrived after the question of the call now in progress was sent.
Handler(op, t, c) ==
    [pc |-> "idle", op |-> op, prev |-> IF op = "text" THEN disp.op ELSE "none",
     text |-> t, chat |-> c, asked |-> FALSE,
     replies |-> <<>>, sends |-> <<>>, goals |-> <<>>, cancels |-> 0]

\* The call has sent its question (line 86) and not yet read an answer (line 97).
Asked == hmi.pc \in {"poll", "read"}

\* Faulty variant of _start: lines 137-138 left out.
start_without_reset(c) ==
    /\ disp.pc = "idle"
    /\ bot' = Some(TheBot)
    /\ chat_id' = Some(c)
    /\ ac' = cancel_all_goals(ac)
    /\ disp' = [Handler("start", <<"/start">>, Some(c)) EXCEPT
                    !.replies = <<HiText>>,
                    !.cancels = 1,
                    !.sends = <<Msg(c, Greeting)>>]
    /\ UNCHANGED <<answer, answer_needed, cb, hmi, pure>>

\* _start
start(c) ==
    /\ disp.pc = "idle"
    /\ bot' = Some(TheBot)
    /\ chat_id' = Some(c)
    /\ answer' = None
    /\ answer_needed' = FALSE
    /\ ac' = cancel_all_goals(ac)
    /\ disp' = [Handler("start", <<"/start">>, Some(c)) EXCEPT
                    !.replies = <<HiText>>,
                    !.cancels = 1,
                    !.sends = <<Msg(c, Greeting)>>]
    /\ UNCHANGED <<cb, hmi, pure>>

\* Faulty variant of _stop: line 121 left out.
stop_keeps_flag ==
    /\ disp.pc = "idle"
    /\ answer' = None
    /\ ac' = cancel_all_goals(ac)
    /\ disp' = [Handler("stop", <<"/stop">>, None) EXCEPT !.cancels = 1]
    /\ UNCHANGED <<bot, chat_id, answer_needed, cb, hmi, pure>>

\* Faulty variant of _stop: the chat is forgotten.
stop_unbinds ==
    /\ disp.pc = "idle"
    /\ chat_id' = None
    /\ answer' = None
    /\ answer_needed' = FALSE
    /\ ac' = cancel_all_goals(ac)
    /\ disp' = [Handler("stop", <<"/stop">>, None) EXCEPT !.cancels = 1]
    /\ UNCHANGED <<bot, cb, hmi, pure>>

\* _stop: the update is only logged.
stop ==
    /\ disp.pc = "idle"
    /\ answer' = None
    /\ answer_needed' = FALSE
    /\ ac' = cancel_all_goals(ac)
    /\ disp' = [Handler("stop", <<"/stop">>, None) EXCEPT !.cancels = 1]
    /\ UNCHANGED <<bot, chat_id, cb, hmi, pure>>

\* _help
help(c) ==
    /\ disp.pc = "idle"
    /\ disp' = [Handler("help", <<"/help">>, Some(c)) EXCEPT !.replies = <<HelpText>>]
    /\ UNCHANGED <<bot, chat_id, answer, answer_needed, ac, cb, hmi, pure>>

\* Faulty variant of _accept_command: the goal carries the text as received.
accept_command_raw(c, t) ==
    /\ disp.pc = "idle"
    /\ LET unbound == bot = None \/ chat_id = None
           replies == IF unbound THEN <<BeginText>> ELSE <<>>
           h == [Handler("text", t, Some(c)) EXCEPT !.replies = replies]
       IN  IF answer_needed
           THEN /\ disp' = [h EXCEPT !.pc = "store", !.asked = Asked]
                /\ ac' = ac
           ELSE /\ disp' = [h EXCEPT !.goals = <<t>>]
                /\ ac' = send_goal(t)
    /\ UNCHANGED <<bot, chat_id, answer, answer_needed, cb, hmi, pure>>

\* _accept_command, lines 149-156 and the else branch: the reply when no
\* session is bound (no return follows it), the test of _answer_needed, and,
\* when it is false, the goal.
accept_command(c, t) ==
    /\ disp.pc = "idle"
    /\ LET unbound == bot = None \/ chat_id = None
           replies == IF unbound THEN <<BeginText>> ELSE <<>>
           h == [Handler("text", t, Some(c)) EXCEPT !.replies = replies]
       IN  IF answer_needed
           THEN /\ disp' = [h EXCEPT !.pc = "store", !.asked = Asked]
                /\ ac' = ac
           ELSE /\ disp' = [h EXCEPT !.goals = <<sanitize_text(t)>>]
                /\ ac' = send_goal(sanitize_text(t))
    /\ UNCHANGED <<bot, chat_id, answer, answer_needed, cb, hmi, pure>>

\* Faulty variant of line 158: the answer is stored sanitized.
accept_command_store_sanitized ==
    /\ disp.pc = "store"
    /\ answer' = Some(sanitize_text(disp.text))
    /\ disp' = [disp EXCEPT !.pc = "idle", !.asked = FALSE]
    /\ hmi' = IF hmi.pc \in {"send", "poll", "read"}
              THEN [hmi EXCEPT !.stored = IF hmi.pc = "send" THEN "before"
                                         ELSE IF disp.asked THEN "asked"
                                         ELSE "waiting"]
              ELSE hmi
    /\ UNCHANGED <<bot, chat_id, answer_needed, ac, cb, pure>>

\* _accept_command, line 158.  A call that has not read its answer yet has
\* this text to read next; stored tells when it came: "before" the call waited
\* in its loop, while it was "waiting" though the text had arrived before the
\* question, or "asked", arrived after the question was sent.
accept_command_store ==
    /\ disp.pc = "store"
    /\ answer' = Some(disp.text)
    /\ disp' = [disp EXCEPT !.pc = "idle", !.asked = FALSE]
    /\ hmi' = IF hmi.pc \in {"send", "poll", "read"}
              THEN [hmi EXCEPT !.stored = IF hmi.pc = "send" THEN "before"
                                         ELSE IF disp.asked THEN "asked"
                                         ELSE "waiting"]
              ELSE hmi
    /\ UNCHANGED <<bot, chat_id, answer_needed, ac, cb, pure>>

(***************************************************************************)
(* Callback thread: the callbacks registered with send_goal (line 164).    *)
(* The executor reports on a goal it was given, cancelled or not.          *)
(***************************************************************************)
\* _done_callback
done_callback(sentence) ==
    /\ ac.status # "none"
    /\ ac' = [ac EXCEPT !.status = "none"]
    /\ answer' = None
    /\ answer_needed' = FALSE
    /\ cb' = IF CanSend
             THEN [op |-> "done", sentence |-> sentence, feedback |-> <<>>,
                   sends |-> <<Msg(chat_id[1], sentence)>>, raised |-> FALSE]
             ELSE [op |-> "done", sentence |-> sentence, feedback |-> <<>>,
                   sends |-> <<>>, raised |-> TRUE]
    /\ UNCHANGED <<bot, chat_id, disp, hmi, pure>>

\* _feedback_callback: the feedback is only logged.
feedback_callback(feedback) ==
    /\ ac.status # "none"
    /\ cb' = IF CanSend
             THEN [op |-> "feedback", sentence |-> <<>>, feedback |-> feedback,
                   sends |-> <<Msg(chat_id[1], BusyText)>>, raised |-> FALSE]
             ELSE [op |-> "feedback", sentence |-> <<>>, feedback |-> feedback,
                   sends |-> <<>>, raised |-> TRUE]
    /\ UNCHANGED <<bot, chat_id, answer, answer_needed, ac, disp, hmi, pure>>

(***************************************************************************)
(* HMI execute thread: _determine_answer.  The executor asks while it      *)
(* executes a goal that has not been cancelled, one question at a time.    *)
(***************************************************************************)
Call(d, g, t) ==
    [pc |-> "idle", description |-> d, grammar |-> g, target |-> t,
     read |-> None, stored |-> "before", sent |-> <<>>, outcome |-> "none",
     result |-> HMIResult(<<>>, <<>>)]

\* Faulty variant of lines 76-81: the empty description is asked like any other.
determine_answer_empty_asked(g, t) ==
    /\ hmi.pc = "idle"
    /\ ac.status = "active"
    /\ answer_needed' = TRUE
    /\ hmi' = [Call(<<>>, g, t) EXCEPT !.pc = "send"]
    /\ disp' = [disp EXCEPT !.asked = FALSE]
    /\ UNCHANGED <<bot, chat_id, answer, ac, cb, pure>>

\* lines 76-81: the empty description.
determine_answer_empty(g, t) ==
    /\ hmi.pc = "idle"
    /\ ac.status = "active"
    /\ hmi' = [Call(<<>>, g, t) EXCEPT
                   !.outcome = "returned",
                   !.result = HMIResult(ErrText(g, t), <<>>)]
    /\ UNCHANGED <<bot, chat_id, answer, answer_needed, ac, disp, cb, pure>>

\* lines 76 and 83.  A text on its way to _answer arrived before the question
\* of this call.
determine_answer_begin(d, g, t) ==
    /\ hmi.pc = "idle"
    /\ ac.status = "active"
    /\ d # <<>>
    /\ answer_needed' = TRUE
    /\ hmi' = [Call(d, g, t) EXCEPT !.pc = "send"]
    /\ disp' = [disp EXCEPT !.asked = FALSE]
    /\ UNCHANGED <<bot, chat_id, answer, ac, cb, pure>>

\* lines 85-86: with no bot or no chat the call raises and ends here.
determine_answer_send ==
    /\ hmi.pc = "send"
    /\ hmi' = IF CanSend
              THEN [hmi EXCEPT !.pc = "poll",
                               !.sent = <<Msg(chat_id[1], hmi.description)>>]
              ELSE [hmi EXCEPT !.pc = "idle", !.outcome = "raised"]
    /\ UNCHANGED <<bot, chat_id, answer, answer_needed, ac, disp, cb, pure>>

\* Faulty variant of lines 91-93: the call waits for the Event of line 44,
\* which no handler sets.
determine_answer_poll_on_event ==
    /\ hmi.pc = "poll"
    /\ FALSE
    /\ hmi' = [hmi EXCEPT !.pc = "read"]
    /\ UNCHANGED <<bot, chat_id, answer, answer_needed, ac, disp, cb, pure>>

\* lines 91-93: the loop is left once _answer is a non-empty text.
determine_answer_poll ==
    /\ hmi.pc = "poll"
    /\ answer # None
    /\ answer[1] # <<>>
    /\ hmi' = [hmi EXCEPT !.pc = "read"]
    /\ UNCHANGED <<bot, chat_id, answer, answer_needed, ac, disp, cb, pure>>

\* lines 97-103: _answer is read again; None has no replace and the call raises.
determine_answer_read ==
    /\ hmi.pc = "read"
    /\ IF answer = None
       THEN hmi' = [hmi EXCEPT !.pc = "idle", !.outcome = "raised"]
       ELSE LET sanitized == sanitize_text(replace(answer[1], AnswerPrefix))
                semantics == parse_sentence(sanitized, hmi.grammar, hmi.target)
            IN  hmi' = [hmi EXCEPT !.pc = "clear",
                                   !.read = answer,
                                   !.result = HMIResult(sanitized, semantics)]
    /\ UNCHANGED <<bot, chat_id, answer, answer_needed, ac, disp, cb, pure>>

\* line 104.
determine_answer_clear ==
    /\ hmi.pc = "clear"
    /\ answer' = None
    /\ hmi' = [hmi EXCEPT !.pc = "unflag"]
    /\ UNCHANGED <<bot, chat_id, answer_needed, ac, disp, cb, pure>>

\* lines 105-108.
determine_answer_return ==
    /\ hmi.pc = "unflag"
    /\ answer_needed' = FALSE
    /\ hmi' = [hmi EXCEPT !.pc = "idle", !.outcome = "returned"]
    /\ UNCHANGED <<bot, chat_id, answer, ac, disp, cb, pure>>

Next ==
    \/ \E c \in Chats : start(c)
    \/ stop
    \/ \E c \in Chats : help(c)
    \/ \E c \in Chats, t \in Texts : accept_command(c, t)
    \/ accept_command_store
    \/ \E s \in ResultSentences : done_callback(s)
    \/ \E f \in Feedbacks : feedback_callback(f)
    \/ \E g \in Grammars, t \in Targets : determine_answer_empty(g, t)
    \/ \E d \in Descriptions, g \in Grammars, t \in Targets : determine_answer_begin(d, g, t)
    \/ determine_answer_send
    \/ determine_answer_poll
    \/ determine_answer_read
    \/ determine_answer_clear
    \/ determine_answer_return

Spec == Init /\ [][Next]_vars

(***************************************************************************)
(* The same program with the HMI execute thread scheduled fairly: a step   *)
(* of _determine_answer that stays possible is taken (the loop of lines    *)
(* 91-93 tests _answer again every half second).  Nothing obliges the      *)
(* user, the executor or the other threads to act.  One chat and two texts *)
(* are enough for what depends on the order of the steps.                  *)
(***************************************************************************)
LiveChats == {1}
LiveTexts == {GoText, AnswerText}
LiveFeedbacks == {<<"step 1">>}

determine_answer_step ==
    \/ determine_answer_send
    \/ determine_answer_poll
    \/ determine_answer_read
    \/ determine_answer_clear
    \/ determine_answer_return

NextLive ==
    \/ \E c \in LiveChats : start(c)
    \/ stop
    \/ \E c \in LiveChats : help(c)
    \/ \E c \in LiveChats, t \in LiveTexts : accept_command(c, t)
    \/ accept_command_store
    \/ \E s \in ResultSentences : done_callback(s)
    \/ \E f \in LiveFeedbacks : feedback_callback(f)
    \/ \E g \in Grammars, t \in Targets : determine_answer_empty(g, t)
    \/ \E d \in Descriptions, g \in Grammars, t \in Targets :
           determine_answer_begin(d, g, t)
    \/ determine_answer_step

SpecLive == Init /\ [][NextLive]_vars /\ WF_vars(determine_answer_step)

(***************************************************************************)
(* sanitize_text alone, on every text up to MaxLen characters.             *)
(***************************************************************************)
InitSanitize ==
    /\ InitBridge
    /\ txt \in Inputs
    /\ lowered = None
    /\ again = None

sanitize_once ==
    /\ lowered = None
    /\ lowered' = Some(sanitize_text(txt))
    /\ UNCHANGED <<txt, again, bridge>>

sanitize_twice ==
    /\ lowered # None
    /\ again = None
    /\ again' = Some(sanitize_text(lowered[1]))
    /\ UNCHANGED <<txt, lowered, bridge>>

NextSanitize ==
    \/ sanitize_once
    \/ sanitize_twice

SpecSanitize == InitSanitize /\ [][NextSanitize]_vars

(***************************************************************************)
(* What the specification says of sanitization, stated without the code's  *)
(* operators: the exclusion set as the specification lists it, a filter    *)
(* and a character-wise map.                                               *)
(***************************************************************************)
SpecExclusion == {"!", ".", ",", ":", "'", "?", Grave, "~", "@", "#", "$", "%", "^",
                  "&", "*", "(", ")", "_", "+", "=", "-", ">", "<", "/"}
UpperLetters == Range(UpperCase)
LetterPairs == {<<UpperCase[i], LowerCase[i]>> : i \in 1..Len(UpperCase)}
LowerSpec(c) ==
    IF c \in UpperLetters THEN (CHOOSE p \in LetterPairs : p[1] = c)[2] ELSE c
Kept(s) == SelectSeq(s, LAMBDA c : c \notin SpecExclusion)
SanitizeSpec(s) == [i \in 1..Len(Kept(s)) |-> LowerSpec(Kept(s)[i])]
Clean(s) == \A i \in 1..Len(s) : s[i] \notin SpecExclusion /\ s[i] \notin UpperLetters
StripLeadingPrefix(s) ==
    IF StartsWith(s, AnswerPrefix) THEN SubSeq(s, Len(AnswerPrefix) + 1, Len(s)) ELSE s

(***************************************************************************)
(* C1: a _determine_answer call with an empty description returns an error *)
(* result (the error message, empty semantics) in the same step: it sends  *)
(* no chat message, does not enter the polling wait, and leaves            *)
(* _answer_needed and _answer as they were.                                *)
(***************************************************************************)
C1_EmptyDescription ==
    [][\A g \in Grammars, t \in Targets :
          determine_answer_empty(g, t) =>
              /\ hmi'.pc = "idle"
              /\ hmi'.outcome = "returned"
              /\ hmi'.result.sentence = ErrText(g, t)
              /\ hmi'.result.semantics = <<>>
              /\ hmi'.sent = <<>>
              /\ disp' = disp
              /\ cb' = cb
              /\ answer_needed' = answer_needed
              /\ answer' = answer]_vars

\* An empty question was answered with the error result while an earlier
\* question had left the flag set.
C1_Witness ==
    /\ hmi.pc = "idle"
    /\ hmi.description = <<>>
    /\ hmi.outcome = "returned"
    /\ hmi.result.semantics = <<>>
    /\ hmi.sent = <<>>
    /\ answer_needed

(***************************************************************************)
(* C2: every _determine_answer call with a non-empty description ends by   *)
(* returning, having sent exactly one chat message whose text is the       *)
(* description; it returns (s, parse_sentence(s, grammar, target)) with s  *)
(* the sanitized answer text (its leading answer token removed) that       *)
(* _accept_command delivered, and when it returns _answer_needed is false  *)
(* and _answer is None.                                                    *)
(***************************************************************************)
C2_AskOnceAndReturn ==
    [][(hmi.pc # "idle" /\ hmi'.pc = "idle") =>
          /\ hmi'.outcome = "returned"
          /\ Len(hmi'.sent) = 1
          /\ hmi'.sent[1].text = hmi'.description
          /\ hmi'.read # None
          /\ hmi'.result.sentence = SanitizeSpec(StripLeadingPrefix(hmi'.read[1]))
          /\ hmi'.result.semantics =
                 parse_sentence(hmi'.result.sentence, hmi'.grammar, hmi'.target)
          /\ answer_needed' = FALSE
          /\ answer' = None]_vars

(***************************************************************************)
(* C3: a text message handled while no session is bound is answered with   *)
(* the instruction to start first and is not used: no goal is sent to the  *)
(* action server and the handler does not go on to store an answer.        *)
(***************************************************************************)
C3_NoSessionTextUnused ==
    [][\A c \in Chats, t \in Texts :
          (~CanSend /\ disp'.text = t /\ accept_command(c, t)) =>
              /\ disp'.replies = <<BeginText>>
              /\ disp'.goals = <<>>
              /\ ac' = ac
              /\ disp'.pc = "idle"
              /\ answer' = answer]_vars

C5_StartBindsCancelsResets ==
    [][\A c \in Chats :
          start(c) =>
              /\ bot' = Some(TheBot)
              /\ chat_id' = Some(c)
              /\ disp'.cancels = 1
              /\ ac'.status # "active"
              /\ answer_needed' = FALSE
              /\ answer' = None]_vars

\* A second /start, from another chat than the one the question went to, while
\* the goal is outstanding and the question is pending.
C5_Witness ==
    /\ disp.op = "start"
    /\ chat_id = Some(2)
    /\ hmi.pc = "poll"
    /\ hmi.sent = <<Msg(1, Question)>>
    /\ ac.status = "cancelling"
    /\ disp.cancels = 1
    /\ ~answer_needed

(***************************************************************************)
(* C6: every command sent as a goal is sanitized: it holds no character of *)
(* the exclusion set and no uppercase letter; a text message handled with  *)
(* a session bound and no answer awaited sends exactly one goal, whose     *)
(* command is the sanitized text, and does not touch _answer.              *)
(***************************************************************************)
C6_GoalsAreSanitized ==
    /\ [](/\ Clean(ac.command)
          /\ \A i \in 1..Len(disp.goals) : Clean(disp.goals[i]))
    /\ [][\A c \in Chats, t \in Texts :
             (/\ CanSend
              /\ ~answer_needed
              /\ disp'.text = t
              /\ disp'.chat = Some(c)
              /\ accept_command(c, t)) =>
                 /\ disp'.goals = <<SanitizeSpec(t)>>
                 /\ ac' = [status |-> "active", command |-> SanitizeSpec(t)]
                 /\ disp'.pc = "idle"
                 /\ answer' = answer]_vars

\* "Go!" was handled in the Idle state and went out as the goal "go".
C6_Witness ==
    /\ disp.op = "text"
    /\ disp.text = GoText
    /\ disp.replies = <<>>
    /\ disp.goals = << <<"g", "o">> >>
    /\ ac = [status |-> "active", command |-> <<"g", "o">>]
    /\ bot # None

(***************************************************************************)
(* C7: _done_callback sends the bound chat exactly one message, the        *)
(* result's result_sentence unchanged, as its last statement, and leaves   *)
(* _answer_needed false and _answer None.                                  *)
(***************************************************************************)
C7_DoneRelaysResult ==
    [][\A s \in ResultSentences :
          done_callback(s) =>
              /\ Len(cb'.sends) = 1
              /\ cb'.sends[1].text = s
              /\ chat_id # None
              /\ cb'.sends[1].chat_id = chat_id[1]
              /\ ~cb'.raised
              /\ answer_needed' = FALSE
              /\ answer' = None]_vars

\* C7, where a session is bound: there the callback does relay the sentence.
C7_DoneRelaysResult_SessionBound ==
    [][\A s \in ResultSentences :
          (CanSend /\ done_callback(s)) =>
              /\ cb'.sends = <<Msg(chat_id[1], s)>>
              /\ ~cb'.raised
              /\ answer_needed' = FALSE
              /\ answer' = None]_vars

(***************************************************************************)
(* C8: sanitize_text is idempotent: applied to its own value it returns    *)
(* that value.                                                             *)
(***************************************************************************)
C8_SanitizeIdempotent == again # None => again = lowered

\* The second application ran on a text the first one had changed.
C8_Witness ==
    /\ again # None
    /\ lowered[1] # txt
    /\ lowered[1] # <<>>
    /\ \E i \in 1..Len(txt) : txt[i] \in SpecExclusion
    /\ \E i \in 1..Len(txt) : txt[i] \in UpperLetters

(***************************************************************************)
(* C9: the value of sanitize_text holds no character of the exclusion set  *)
(* and no uppercase letter, and is the argument with exactly the excluded  *)
(* characters removed and the others lowercased, in their order.           *)
(***************************************************************************)
C9_SanitizeStripsAndLowers ==
    lowered # None =>
        /\ Clean(lowered[1])
        /\ lowered[1] = SanitizeSpec(txt)
        /\ Len(lowered[1]) = Cardinality({i \in 1..Len(txt) : txt[i] \notin SpecExclusion})

\* An excluded character was removed and an uppercase letter lowered, the
\* kept characters in their order.
C9_Witness ==
    /\ lowered # None
    /\ txt = <<"B", "/">>
    /\ lowered[1] = <<"b">>

(***************************************************************************)
(* C10: in every reachable state an answer text is stored only while       *)
(* _answer_needed is true.                                                 *)
(***************************************************************************)
C10_AnswerOnlyWhileAwaited == answer # None => answer_needed

(***************************************************************************)
(* C11: once _determine_answer has left its polling loop (line 91), the    *)
(* _answer it reads at line 97 is a text stored by _accept_command, never  *)
(* the None another handler wrote: the read does not raise.                *)
(***************************************************************************)
C11_ReadAfterLoopIsText ==
    [][determine_answer_read =>
          /\ answer # None
          /\ hmi'.read = answer
          /\ hmi'.read[1] \in Texts
          /\ hmi'.outcome # "raised"]_vars

(***************************************************************************)
(* C12: whenever _accept_command stores an answer while a call of          *)
(* _determine_answer is in its polling loop, that call eventually returns  *)
(* and _answer_needed is false again, the HMI thread being scheduled       *)
(* fairly, whatever _stop, _start and _done_callback do in between.        *)
(***************************************************************************)
AnswerStoredWhilePolling ==
    hmi.pc = "poll" /\ answer # None /\ hmi.stored \in {"waiting", "asked"}

Returned == hmi.pc = "idle" /\ hmi.outcome = "returned" /\ ~answer_needed

C12_StoredAnswerUnblocks == AnswerStoredWhilePolling ~> Returned

\* C12 as the code has it: the call returns unless _stop, _start or
\* _done_callback sets _answer to None before the call has read it (line 97).
ClearedBeforeRead == hmi.pc \in {"poll", "read"} /\ answer = None

C12_StoredAnswerUnblocksUnlessCleared ==
    AnswerStoredWhilePolling ~> (Returned \/ ClearedBeforeRead)

\* The call returned on an answer that was stored while it polled.
C12_Witness ==
    /\ Returned
    /\ hmi.stored = "asked"
    /\ hmi.read = Some(AnswerText)
    /\ hmi.sent # <<>>
    /\ answer = None

(***************************************************************************)
(* C13: the wait of _determine_answer has no timeout and no cancellation:  *)
(* a call with a non-empty description returns only on an answer text that *)
(* _accept_command stored after the call started waiting in its loop, and  *)
(* neither _stop nor _start makes a call blocked in the loop return.       *)
(***************************************************************************)
C13_ReturnsOnlyOnLaterAnswer ==
    [][/\ determine_answer_poll => answer # None
       /\ determine_answer_return =>
              /\ hmi.read # None
              /\ hmi.stored \in {"waiting", "asked"}
       /\ (hmi.pc = "poll" /\ (stop \/ \E c \in Chats : start(c))) =>
              /\ hmi' = hmi
              /\ answer' = None]_vars

\* C13 without "after the call started waiting": the loop is left only on a
\* stored text, and _stop and _start leave a blocked call blocked.
C13_NoTimeoutNoCancellation ==
    [][/\ determine_answer_poll => answer # None /\ answer[1] \in Texts
       /\ determine_answer_return => hmi.read # None
       /\ (hmi.pc = "poll" /\ (stop \/ \E c \in Chats : start(c))) =>
              /\ hmi' = hmi
              /\ answer' = None]_vars

(***************************************************************************)
(* C14: a text message handled with a session bound while _answer_needed   *)
(* is true is stored in _answer as received, not sanitized, and sends no   *)
(* goal; a message that comes before the answer is consumed replaces the   *)
(* text stored before it.                                                  *)
(***************************************************************************)
C14_AnswerStoredRaw ==
    /\ [][\A c \in Chats, t \in Texts :
             (/\ CanSend
              /\ answer_needed
              /\ disp'.text = t
              /\ disp'.chat = Some(c)
              /\ accept_command(c, t)) =>
                 /\ disp'.pc = "store"
                 /\ disp'.goals = <<>>
                 /\ disp'.replies = <<>>
                 /\ ac' = ac
                 /\ answer' = answer]_vars
    /\ [][accept_command_store =>
             /\ answer' = Some(disp.text)
             /\ disp'.pc = "idle"
             /\ disp'.goals = <<>>
             /\ ac' = ac
             /\ answer_needed' = answer_needed]_vars

\* "/answer Bed." was stored as it came, after another text message, while
\* the call was polling; no goal was sent.
C14_Witness ==
    /\ disp.op = "text"
    /\ disp.prev = "text"
    /\ disp.pc = "idle"
    /\ disp.text = AnswerText
    /\ answer = Some(AnswerText)
    /\ AnswerText # sanitize_text(AnswerText)
    /\ disp.goals = <<>>
    /\ answer_needed
    /\ CanSend
    /\ hmi.pc = "poll"
    /\ hmi.stored = "asked"

(***************************************************************************)
(* C15: _stop leaves _bot and _chat_id as they are while it sets           *)
(* _answer_needed false and _answer None and calls cancel_all_goals; once  *)
(* _start has bound a session, no step of any thread unbinds it.           *)
(***************************************************************************)
C15_StopKeepsBinding ==
    /\ [][stop =>
             /\ bot' = bot
             /\ chat_id' = chat_id
             /\ answer_needed' = FALSE
             /\ answer' = None
             /\ disp'.cancels = 1
             /\ ac' = cancel_all_goals(ac)
             /\ ac'.status # "active"]_vars
    /\ [][CanSend => CanSend']_vars

\* /stop ran with the session of chat 2 bound, a goal being executed and a
\* question pending: the chat is still bound.
C15_Witness ==
    /\ disp.op = "stop"
    /\ bot = Some(TheBot)
    /\ chat_id = Some(2)
    /\ ac.status = "cancelling"
    /\ hmi.pc = "poll"
    /\ ~answer_needed
    /\ answer = None

(***************************************************************************)
(* C16: _determine_answer removes "/answer " only where it is the leading  *)
(* prefix of the answer: the sentence it returns is sanitize_text of the   *)
(* answer without its leading prefix, so an occurrence further on is not   *)
(* removed before the text is sanitized.                                   *)
(***************************************************************************)
C16_OnlyLeadingPrefixStripped ==
    [][(determine_answer_read /\ answer # None) =>
          hmi'.result.sentence = SanitizeSpec(StripLeadingPrefix(answer[1]))]_vars

\* C16 for the answers that hold "/answer " nowhere but at their start.
C16_LeadingPrefixStripped ==
    [][(/\ determine_answer_read
        /\ answer # None
        /\ replace(StripLeadingPrefix(answer[1]), AnswerPrefix)
               = StripLeadingPrefix(answer[1])) =>
          hmi'.result.sentence = SanitizeSpec(StripLeadingPrefix(answer[1]))]_vars

(***************************************************************************)
(* C17: _help and _feedback_callback change no state of the bridge: each   *)
(* sends one fixed text (the usage text; "I'm busy...", whatever the       *)
(* feedback holds) and leaves _bot, _chat_id, _answer_needed and _answer   *)
(* as they are, so a question pending before is pending after.             *)
(***************************************************************************)
C17_HelpAndFeedbackChangeNothing ==
    /\ [][\A c \in Chats :
             help(c) =>
                 /\ disp'.replies = <<HelpText>>
                 /\ disp'.sends = <<>>
                 /\ disp'.goals = <<>>
                 /\ UNCHANGED <<bot, chat_id, answer, answer_needed, ac, hmi>>]_vars
    /\ [][\A f \in Feedbacks :
             (cb'.feedback = f /\ feedback_callback(f)) =>
                 /\ chat_id # None
                 /\ cb'.sends = <<Msg(chat_id[1], BusyText)>>
                 /\ ~cb'.raised
                 /\ UNCHANGED <<bot, chat_id, answer, answer_needed, ac, hmi>>]_vars

\* C17, where a session is bound: there the callback does send its notice.
C17_HelpAndFeedbackChangeNothing_SessionBound ==
    /\ [][\A c \in Chats :
             help(c) =>
                 /\ disp'.replies = <<HelpText>>
                 /\ disp'.sends = <<>>
                 /\ disp'.goals = <<>>
                 /\ UNCHANGED <<bot, chat_id, answer, answer_needed, ac, hmi>>]_vars
    /\ [][\A f \in Feedbacks :
             (CanSend /\ cb'.feedback = f /\ feedback_callback(f)) =>
                 /\ cb'.sends = <<Msg(chat_id[1], BusyText)>>
                 /\ ~cb'.raised
                 /\ UNCHANGED <<bot, chat_id, answer, answer_needed, ac, hmi>>]_vars

(***************************************************************************)
(* C18: the answer a call of _determine_answer returns is a text message   *)
(* that arrived after the call sent its question; a text stored before     *)
(* the question was posed is never returned as the answer to it.           *)
(***************************************************************************)
C18_AnswerArrivedAfterQuestion ==
    [][determine_answer_return =>
          /\ hmi.read # None
          /\ hmi.sent # <<>>
          /\ hmi.stored = "asked"]_vars

(***************************************************************************)
(* C19: every send_message of _determine_answer, _done_callback and        *)
(* _feedback_callback is reached with a session bound (_bot and _chat_id   *)
(* set); none of them is reached in NoSession.                             *)
(***************************************************************************)
C19_SendsOnlyWithSession ==
    [][(\/ determine_answer_send
        \/ \E s \in ResultSentences : done_callback(s)
        \/ \E f \in Feedbacks : feedback_callback(f)) => CanSend]_vars

====
